---- MODULE Spec2Model ----
(***************************************************************************)
(* User Management API (FastAPI + SQLModel over PostgreSQL).               *)
(*                                                                         *)
(* State: the "users" table, its id sequence, the wall clock read by the   *)
(* timestamp defaults, the sessions handed out by get_session and, per     *)
(* request in flight, the position of its handler.  One action per         *)
(* database statement of a handler: requests served at the same time (by   *)
(* the workers of the service, against the one database) interleave at     *)
(* statement granularity.  INSERT with COMMIT, and DELETE with COMMIT, are *)
(* one step each: nothing of an open transaction is visible to the others. *)
(*                                                                         *)
(* Three specifications share the actions:                                 *)
(*   Spec      requests served at the same time,                           *)
(*   SeqSpec   requests issued one after the other,                        *)
(*   PoolSpec  one request among many further requests that hold sessions. *)
(***************************************************************************)
EXTENDS Integers, Sequences, FiniteSets

VARIABLES
    users,      \* rows of the users table, in storage (scan) order
    idSeq,      \* last value handed out by the id sequence of users.id
    freeSlots,  \* dead tuples left by deletes, reusable by later inserts
    clock,      \* wall clock read by datetime.utcnow
    req,        \* per request slot: handler position, inputs, response
    sess,       \* per request slot: state of the Session of get_session
    trail,      \* per request slot: what happened to that Session, in order
    others,     \* sessions of further get_users requests, counted by state
    nReq,       \* requests received so far
    returned,   \* ids that a 201 response of create_user has carried
    deleted     \* ids whose delete_user has answered 200

vars ==
    <<users, idSeq, freeSlots, clock, req, sess, trail, others, nReq,
      returned, deleted>>

----------------------------------------------------------------------------
(* Bounds of the model                                                     *)

NumSlots == 2
MaxRequests == 3
MaxRaceRequests == 2
MaxClock == 1
MaxPage == 2
MaxOthers == 21

Slots == 1..NumSlots

----------------------------------------------------------------------------
(* Program constants                                                       *)

pool_size == 20
max_overflow == 0
min_length == 3
max_length == 50

----------------------------------------------------------------------------
(* Strings are sequences of one-character strings.                         *)

LowerLetters == {"a", "b"}
UpperLetters == {"A", "B"}
Digits == {"1"}

\* str.isalnum() on one character
IsAlnumChar(c) == c \in LowerLetters \cup UpperLetters \cup Digits

\* str.isalnum(): every character alphanumeric and at least one character
IsAlnum(v) == Len(v) > 0 /\ \A i \in 1..Len(v) : IsAlnumChar(v[i])

\* str.replace(ch, '')
StrRemove(v, ch) == SelectSeq(v, LAMBDA c : c # ch)

LowerChar(c) == CASE c = "A" -> "a" [] c = "B" -> "b" [] OTHER -> c

\* str.lower()
StrLower(v) == [i \in 1..Len(v) |-> LowerChar(v[i])]

Rejected == <<"ValueError">>

\* the validator without the trailing lower()
validate_username_nolower(v) ==
    IF ~IsAlnum(StrRemove(StrRemove(v, "_"), "-")) THEN Rejected ELSE v

\* UserBase.validate_username: the value stored, or Rejected
validate_username(v) ==
    IF ~IsAlnum(StrRemove(StrRemove(v, "_"), "-")) THEN Rejected ELSE StrLower(v)

\* Field(min_length=3, max_length=50), checked before the validator runs
LengthOk(v) == min_length <= Len(v) /\ Len(v) <= max_length

\* An email is <<local part, domain>>.  EmailStr checks the syntax and
\* returns the address with its domain in lower case.
NoEmail == <<"", "">>
LowerDomain(d) == IF d = "X.com" THEN "x.com" ELSE d
EmailSyntaxOk(e) == e[1] # "" /\ e[2] # ""
NormalizeEmail(e) == <<e[1], LowerDomain(e[2])>>

\* UserCreate(email, username): validation of the request body
UserCreateOk(e, u) ==
    EmailSyntaxOk(e) /\ LengthOk(u) /\ validate_username(u) # Rejected

----------------------------------------------------------------------------
(* Inputs                                                                  *)

EmailInputs == {<<"a", "x.com">>, <<"b", "X.com">>, <<"a", "">>}

UsernameInputs ==
    { <<"A", "b", "a">>, <<"a", "b", "a">>, <<"b", "_", "1">>,
      <<"_", "_", "_">>, <<"a", " ", "b">>, <<"a", "b">> }

LookupEmails == {<<"a", "x.com">>, <<"b", "X.com">>}

Ids == 1..MaxRequests
PageArgs == (-1)..MaxPage

\* The bodies a client may send to POST /users/
CreateRequests ==
    { [kind |-> "create_user", rawEmail |-> e, raw |-> u, user_id |-> 0,
       skip |-> 0, limit |-> 0] : e \in EmailInputs, u \in UsernameInputs }

ListRequests ==
    { [kind |-> "get_users", rawEmail |-> NoEmail, raw |-> <<>>, user_id |-> 0,
       skip |-> k, limit |-> m] : k \in PageArgs, m \in PageArgs }

GetRequests ==
    { [kind |-> "get_user", rawEmail |-> NoEmail, raw |-> <<>>, user_id |-> i,
       skip |-> 0, limit |-> 0] : i \in Ids }

GetByEmailRequests ==
    { [kind |-> "get_user_by_email", rawEmail |-> e, raw |-> <<>>, user_id |-> 0,
       skip |-> 0, limit |-> 0] : e \in LookupEmails }

DeleteRequests ==
    { [kind |-> "delete_user", rawEmail |-> NoEmail, raw |-> <<>>, user_id |-> i,
       skip |-> 0, limit |-> 0] : i \in Ids }

Requests ==
    CreateRequests \cup ListRequests \cup GetRequests
        \cup GetByEmailRequests \cup DeleteRequests

\* The requests of the concurrent runs: creations that collide on the email
\* or on the username, and one request of each other kind
RaceRequests ==
    { r \in Requests :
        /\ r.kind = "create_user" => UserCreateOk(r.rawEmail, r.raw)
        /\ r.user_id \in {0, 1}
        /\ r.skip = 0 /\ r.limit \in {0, MaxPage}
        /\ r.kind = "get_users" => r.limit = MaxPage
        /\ r.kind = "get_user_by_email" => r.rawEmail = <<"a", "x.com">> }

\* One request of each kind, for the runs that study the connection pool
PoolRequests ==
    { r \in Requests :
        /\ r.rawEmail \in {NoEmail, <<"a", "x.com">>}
        /\ r.raw \in {<<>>, <<"a", "b", "a">>}
        /\ r.user_id \in {0, 1}
        /\ r.skip = 0 /\ r.limit = 0 }

----------------------------------------------------------------------------
(* The users table                                                         *)

Range(f) == {f[i] : i \in DOMAIN f}

\* select(User).where(User.email == e).first()
ByEmail(e) == SelectSeq(users, LAMBDA r : r.email = e)

\* select(User).where(User.username == u).first()
ByUsername(u) == SelectSeq(users, LAMBDA r : r.username = u)

\* session.get(User, user_id)
ById(i) == SelectSeq(users, LAMBDA r : r.id = i)

\* the pre-check of create_user that never finds a row
EmailTakenNever(e) == FALSE

\* create_user: existing_user is truthy
EmailTaken(e) == ByEmail(e) # <<>>

\* create_user: existing_username is truthy
UsernameTaken(u) == ByUsername(u) # <<>>

\* a table without its unique indexes
UniqueViolationNever(row) == FALSE

\* The unique indexes on email and username (Field(unique=True)) refuse the row
UniqueViolation(row) ==
    \E r \in Range(users) : r.email = row.email \/ r.username = row.username

\* ids taken from the rows present instead of from the sequence
NextIdFromRows ==
    IF users = <<>> THEN 1
    ELSE 1 + (CHOOSE m \in {r.id : r \in Range(users)} :
                \A r \in Range(users) : r.id <= m)

\* The id the insert receives: the next value of the id sequence of the
\* primary key, which is never handed out twice
NextId == idSeq + 1

\* where the heap may place a new row: at the end, or in the space of a
\* dead tuple once a delete has left one
InsertPlaces == IF freeSlots > 0 THEN 0..Len(users) ELSE {Len(users)}

InsertAt(row, p) ==
    SubSeq(users, 1, p) \o <<row>> \o SubSeq(users, p + 1, Len(users))

\* a delete that is never written to the table
DeleteRowLost(i) == users

\* session.delete(user); session.commit()
DeleteRow(i) == SelectSeq(users, LAMBDA r : r.id # i)

Min(a, b) == IF a < b THEN a ELSE b

\* a page that starts one row too late
PageOffByOne(k, m) == SubSeq(users, k + 2, Min(k + 1 + m, Len(users)))

\* select(User).offset(skip).limit(limit), in scan order
Page(k, m) == SubSeq(users, k + 1, Min(k + m, Len(users)))

----------------------------------------------------------------------------
(* Sessions and the connection pool                                        *)

\* connections checked out of the engine's pool
ConnOut == Cardinality({s \in Slots : sess[s] = "conn"}) + others.conn

\* Session objects that exist and are not closed
SessionsOpen ==
    Cardinality({s \in Slots : sess[s] \in {"open", "conn"}})
        + others.open + others.conn

\* a pool that hands out connections without a ceiling
PoolHasRoomAlways == TRUE

\* QueuePool(pool_size=20, max_overflow=0): a connection can be handed out
PoolHasRoom == ConnOut < pool_size + max_overflow

\* What a statement of request s can do: run, fail on the connection, or,
\* with no connection left for a session that holds none, time out waiting
Outcomes(s) ==
    IF sess[s] = "conn" \/ PoolHasRoom
    THEN {"ok", "OperationalError"}
    ELSE {"TimeoutError"}

\* the trail once the statement has its connection
Connected(s) ==
    IF sess[s] = "conn" THEN trail[s] ELSE Append(trail[s], "checkout")

Set(s, r, se, tr) ==
    /\ req' = [req EXCEPT ![s] = r]
    /\ sess' = [sess EXCEPT ![s] = se]
    /\ trail' = [trail EXCEPT ![s] = tr]

\* raise HTTPException(status_code, detail) out of the handler
Raised(s, status, detail, error) ==
    [req[s] EXCEPT !.pc = "exit", !.status = status, !.detail = detail,
                   !.error = error]

\* except Exception: session.rollback(); raise HTTPException(500, ...)
\* (create_user, delete_user): the connection goes back to the pool
FailRollback(s, o, detail) ==
    Set(s, Raised(s, 500, detail, o), "open",
        Append(IF o = "TimeoutError" THEN trail[s] ELSE Connected(s), "rollback"))

\* except Exception: raise HTTPException(500, ...) (the read handlers)
FailNoRollback(s, o, detail) ==
    Set(s, Raised(s, 500, detail, o),
        IF o = "TimeoutError" THEN sess[s] ELSE "conn",
        IF o = "TimeoutError" THEN trail[s] ELSE Connected(s))

IdleReq ==
    [pc |-> "idle", kind |-> "none", rawEmail |-> NoEmail, raw |-> <<>>,
     email |-> NoEmail, username |-> <<>>, user_id |-> 0, skip |-> 0,
     limit |-> 0, status |-> 0, detail |-> "", error |-> "", body |-> <<>>]

FirstPc(k) ==
    CASE k = "create_user" -> "check_email"
      [] k = "get_users" -> "list"
      [] k = "get_user" -> "get"
      [] k = "get_user_by_email" -> "get_by_email"
      [] k = "delete_user" -> "delete_get"

----------------------------------------------------------------------------
Init ==
    /\ users = <<>>
    /\ idSeq = 0
    /\ freeSlots = 0
    /\ clock = 0
    /\ req = [s \in Slots |-> IdleReq]
    /\ sess = [s \in Slots |-> "none"]
    /\ trail = [s \in Slots |-> <<>>]
    /\ others = [open |-> 0, conn |-> 0]
    /\ nReq = 0
    /\ returned = {}
    /\ deleted = {}

\* A request arrives: get_session hands it a new Session, then the body is
\* validated (422 before the handler runs)
Receive(s, R, budget) ==
    /\ req[s].pc = "idle"
    /\ nReq < budget
    /\ \E r \in R :
        LET base == [IdleReq EXCEPT !.kind = r.kind, !.rawEmail = r.rawEmail,
                        !.raw = r.raw, !.user_id = r.user_id, !.skip = r.skip,
                        !.limit = r.limit]
            next ==
                IF r.kind = "create_user"
                THEN IF UserCreateOk(r.rawEmail, r.raw)
                     THEN [base EXCEPT !.pc = "check_email",
                              !.email = NormalizeEmail(r.rawEmail),
                              !.username = validate_username(r.raw)]
                     ELSE [base EXCEPT !.pc = "exit", !.status = 422,
                              !.detail = "validation error",
                              !.error = "RequestValidationError"]
                ELSE [base EXCEPT !.pc = FirstPc(r.kind), !.email = r.rawEmail]
        IN Set(s, next, "open", <<"open">>)
    /\ nReq' = nReq + 1
    /\ UNCHANGED <<users, idSeq, freeSlots, clock, others, returned, deleted>>

\* create_user: look the email up
CheckEmail(s) ==
    /\ req[s].pc = "check_email"
    /\ \E o \in Outcomes(s) :
        IF o # "ok" THEN FailRollback(s, o, "Failed to create user")
        ELSE IF EmailTaken(req[s].email)
        THEN Set(s, Raised(s, 400, "Email already registered", "HTTPException"),
                 "conn", Connected(s))
        ELSE Set(s, [req[s] EXCEPT !.pc = "check_username"], "conn", Connected(s))
    /\ UNCHANGED <<users, idSeq, freeSlots, clock, others, nReq, returned, deleted>>

\* create_user: look the username up
CheckUsername(s) ==
    /\ req[s].pc = "check_username"
    /\ \E o \in Outcomes(s) :
        IF o # "ok" THEN FailRollback(s, o, "Failed to create user")
        ELSE IF UsernameTaken(req[s].username)
        THEN Set(s, Raised(s, 400, "Username already taken", "HTTPException"),
                 "conn", Connected(s))
        ELSE Set(s, [req[s] EXCEPT !.pc = "commit"], "conn", Connected(s))
    /\ UNCHANGED <<users, idSeq, freeSlots, clock, others, nReq, returned, deleted>>

\* create_user: User.model_validate(user) reads the clock once for
\* created_at and once for updated_at; session.add; session.commit() sends
\* the INSERT, which takes the next id, and commits
Commit(s) ==
    /\ req[s].pc = "commit"
    /\ \E o \in Outcomes(s), d \in {0, 1}, p \in InsertPlaces :
        /\ clock + d <= MaxClock
        /\ clock' = clock + d
        /\ LET row == [id |-> NextId, email |-> req[s].email,
                       username |-> req[s].username, created_at |-> clock,
                       updated_at |-> clock + d]
           IN IF o # "ok"
              THEN /\ FailRollback(s, o, "Failed to create user")
                   /\ UNCHANGED <<users, idSeq, freeSlots>>
              ELSE IF UniqueViolation(row)
              THEN /\ FailRollback(s, "IntegrityError", "Failed to create user")
                   /\ idSeq' = idSeq + 1
                   /\ UNCHANGED <<users, freeSlots>>
              ELSE /\ users' = InsertAt(row, p)
                   /\ idSeq' = idSeq + 1
                   /\ freeSlots' = IF p < Len(users) THEN freeSlots - 1 ELSE freeSlots
                   /\ Set(s, [req[s] EXCEPT !.pc = "refresh", !.user_id = row.id],
                          "open", Append(Connected(s), "commit"))
    /\ UNCHANGED <<others, nReq, returned, deleted>>

\* create_user: session.refresh(db_user) reads the row back in a new
\* transaction; the response is built from it
Refresh(s) ==
    /\ req[s].pc = "refresh"
    /\ \E o \in Outcomes(s) :
        IF o # "ok" THEN FailRollback(s, o, "Failed to create user")
        ELSE IF ById(req[s].user_id) = <<>>
        THEN FailRollback(s, "InvalidRequestError", "Failed to create user")
        ELSE Set(s, [req[s] EXCEPT !.pc = "exit", !.status = 201,
                        !.body = <<ById(req[s].user_id)[1]>>],
                 "conn", Connected(s))
    /\ UNCHANGED <<users, idSeq, freeSlots, clock, others, nReq, returned, deleted>>

\* get_users: a negative OFFSET or LIMIT is refused by the database
GetUsers(s) ==
    /\ req[s].pc = "list"
    /\ \E o \in Outcomes(s) :
        IF o # "ok" THEN FailNoRollback(s, o, "Failed to fetch users")
        ELSE IF req[s].skip < 0 \/ req[s].limit < 0
        THEN FailNoRollback(s, "DataError", "Failed to fetch users")
        ELSE Set(s, [req[s] EXCEPT !.pc = "exit", !.status = 200,
                        !.body = Page(req[s].skip, req[s].limit)],
                 "conn", Connected(s))
    /\ UNCHANGED <<users, idSeq, freeSlots, clock, others, nReq, returned, deleted>>

\* get_user
GetUser(s) ==
    /\ req[s].pc = "get"
    /\ \E o \in Outcomes(s) :
        IF o # "ok" THEN FailNoRollback(s, o, "Failed to fetch user")
        ELSE IF ById(req[s].user_id) = <<>>
        THEN Set(s, Raised(s, 404, "User not found", "HTTPException"),
                 "conn", Connected(s))
        ELSE Set(s, [req[s] EXCEPT !.pc = "exit", !.status = 200,
                        !.body = <<ById(req[s].user_id)[1]>>],
                 "conn", Connected(s))
    /\ UNCHANGED <<users, idSeq, freeSlots, clock, others, nReq, returned, deleted>>

\* get_user_by_email: the path parameter is compared as it was sent
GetUserByEmail(s) ==
    /\ req[s].pc = "get_by_email"
    /\ \E o \in Outcomes(s) :
        IF o # "ok" THEN FailNoRollback(s, o, "Failed to fetch user")
        ELSE IF ByEmail(req[s].email) = <<>>
        THEN Set(s, Raised(s, 404, "User not found", "HTTPException"),
                 "conn", Connected(s))
        ELSE Set(s, [req[s] EXCEPT !.pc = "exit", !.status = 200,
                        !.body = <<ByEmail(req[s].email)[1]>>],
                 "conn", Connected(s))
    /\ UNCHANGED <<users, idSeq, freeSlots, clock, others, nReq, returned, deleted>>

\* delete_user: session.get(User, user_id)
DeleteGet(s) ==
    /\ req[s].pc = "delete_get"
    /\ \E o \in Outcomes(s) :
        IF o # "ok" THEN FailRollback(s, o, "Failed to delete user")
        ELSE IF ById(req[s].user_id) = <<>>
        THEN Set(s, Raised(s, 404, "User not found", "HTTPException"),
                 "conn", Connected(s))
        ELSE Set(s, [req[s] EXCEPT !.pc = "delete_commit"], "conn", Connected(s))
    /\ UNCHANGED <<users, idSeq, freeSlots, clock, others, nReq, returned, deleted>>

\* delete_user: session.delete(user); session.commit().  A DELETE that
\* matches no row any more (the row went in between) only warns.
DeleteCommit(s) ==
    /\ req[s].pc = "delete_commit"
    /\ \E o \in Outcomes(s) :
        IF o # "ok"
        THEN /\ FailRollback(s, o, "Failed to delete user")
             /\ UNCHANGED <<users, freeSlots>>
        ELSE /\ users' = DeleteRow(req[s].user_id)
             /\ freeSlots' = freeSlots + (Len(users) - Len(users'))
             /\ Set(s, [req[s] EXCEPT !.pc = "exit", !.status = 200,
                           !.detail = "User deleted successfully"],
                    "open", Append(Connected(s), "commit"))
    /\ UNCHANGED <<idSeq, clock, others, nReq, returned, deleted>>

\* what the finished request leaves behind in the ghost sets
Answered(s) ==
    /\ returned' = IF req[s].kind = "create_user" /\ req[s].status = 201
                   THEN returned \cup {req[s].body[1].id} ELSE returned
    /\ deleted' = IF req[s].kind = "delete_user" /\ req[s].status = 200
                  THEN deleted \cup {req[s].user_id} ELSE deleted

\* what get_session does to the Session after its yield
Closing(s) ==
    IF req[s].status >= 400 THEN <<"except", "rollback", "close">> ELSE <<"close">>

\* get_session after its yield: except Exception: session.rollback(); raise;
\* finally: session.close().  The response leaves once this has run; of the
\* trail only these last events are kept.
Finish(s) ==
    /\ req[s].pc = "exit"
    /\ Set(s, IdleReq, "closed", Closing(s))
    /\ Answered(s)
    /\ UNCHANGED <<users, idSeq, freeSlots, clock, others, nReq>>

----------------------------------------------------------------------------
(* Further get_users requests in flight, told apart only by the state of   *)
(* their Session: open without a connection, or holding one.               *)

OtherReceive ==
    /\ others.open + others.conn < MaxOthers
    /\ others' = [others EXCEPT !.open = @ + 1]
    /\ UNCHANGED <<users, idSeq, freeSlots, clock, req, sess, trail, nReq, returned, deleted>>

\* its query gets a connection and runs
OtherQuery ==
    /\ others.open > 0
    /\ PoolHasRoom
    /\ others' = [others EXCEPT !.open = @ - 1, !.conn = @ + 1]
    /\ UNCHANGED <<users, idSeq, freeSlots, clock, req, sess, trail, nReq, returned, deleted>>

\* its query times out waiting for a connection; get_session closes the Session
OtherTimeout ==
    /\ others.open > 0
    /\ ~PoolHasRoom
    /\ others' = [others EXCEPT !.open = @ - 1]
    /\ UNCHANGED <<users, idSeq, freeSlots, clock, req, sess, trail, nReq, returned, deleted>>

\* it returns; get_session closes the Session and the connection goes back
OtherFinish ==
    /\ others.conn > 0
    /\ others' = [others EXCEPT !.conn = @ - 1]
    /\ UNCHANGED <<users, idSeq, freeSlots, clock, req, sess, trail, nReq, returned, deleted>>

----------------------------------------------------------------------------
SlotStep(s, R, budget) ==
    \/ Receive(s, R, budget)
    \/ CheckEmail(s)
    \/ CheckUsername(s)
    \/ Commit(s)
    \/ Refresh(s)
    \/ GetUsers(s)
    \/ GetUser(s)
    \/ GetUserByEmail(s)
    \/ DeleteGet(s)
    \/ DeleteCommit(s)
    \/ Finish(s)

\* requests served at the same time
Next == \E s \in Slots : SlotStep(s, RaceRequests, MaxRaceRequests)

Spec == Init /\ [][Next]_vars

\* requests issued one after the other
SeqNext == SlotStep(1, Requests, MaxRequests)

SeqSpec == Init /\ [][SeqNext]_vars

\* one request at a time among many further requests that hold sessions
PoolNext ==
    \/ SlotStep(1, PoolRequests, MaxRequests)
    \/ OtherReceive
    \/ OtherQuery
    \/ OtherTimeout
    \/ OtherFinish

PoolSpec == Init /\ [][PoolNext]_vars

----------------------------------------------------------------------------
(* Properties                                                              *)

\* failures of the database connection, as opposed to answers of the program
InfraErrors == {"OperationalError", "TimeoutError"}

\* a create_user request that passed validation and met no connection failure
CreateAnswered(r) ==
    /\ r.pc = "exit"
    /\ r.kind = "create_user"
    /\ r.error \notin InfraErrors \cup {"RequestValidationError"}

\* a row other than the one request r inserted holds r's email
EmailStoredBefore(r) ==
    \E u \in Range(users) : u.email = r.email /\ u.id # r.user_id

\* a row other than the one request r inserted holds r's username, up to case
UsernameStoredBefore(r) ==
    \E u \in Range(users) :
        u.id # r.user_id /\ StrLower(u.username) = StrLower(r.raw)

\* C1: in every reachable state of the users table, under any interleaving
\* of concurrent create and delete requests, no two stored users have the
\* same email and no two have the same lowercased username.
UniqueEmailAndUsername ==
    \A i, j \in 1..Len(users) :
        i # j =>
            /\ users[i].email # users[j].email
            /\ StrLower(users[i].username) # StrLower(users[j].username)

\* two creations passed the pre-checks and the unique index refused the later
RaceRefusedByIndex ==
    \E s \in Slots :
        /\ req[s].pc = "exit"
        /\ req[s].error = "IntegrityError"
        /\ EmailStoredBefore(req[s]) \/ UsernameStoredBefore(req[s])

\* C2: a valid create request, issued after an earlier one has stored the
\* same email, fails with 400 "Email already registered" and inserts
\* nothing: the table holds exactly one row with that email.
SecondSameEmailConflicts ==
    \A s \in Slots :
        CreateAnswered(req[s]) /\ EmailStoredBefore(req[s]) =>
            /\ req[s].status = 400
            /\ req[s].detail = "Email already registered"
            /\ req[s].user_id = 0
            /\ Len(ByEmail(req[s].email)) = 1

\* the first creation answered 201 and its row is there, the second got 400
SameEmailRefused ==
    \E s \in Slots :
        /\ CreateAnswered(req[s])
        /\ req[s].detail = "Email already registered"
        /\ \E u \in Range(users) : u.email = req[s].email /\ u.id \in returned

\* C3: a valid create request with a fresh email whose username differs
\* only by letter case from a stored username fails with 400 "Username
\* already taken".
CaseVariantUsernameConflicts ==
    \A s \in Slots :
        /\ CreateAnswered(req[s])
        /\ ~EmailStoredBefore(req[s])
        /\ UsernameStoredBefore(req[s])
        => /\ req[s].status = 400
           /\ req[s].detail = "Username already taken"

\* a username sent with capitals is refused against the stored username,
\* from which it differs only by letter case
CaseVariantRefused ==
    \E s \in Slots :
        /\ CreateAnswered(req[s])
        /\ req[s].detail = "Username already taken"
        /\ req[s].raw # StrLower(req[s].raw)
        /\ \E u \in Range(users) :
            u.username = StrLower(req[s].raw) /\ u.id \in returned

\* every character is alphanumeric, a hyphen or an underscore
OnlyAllowedChars(v) ==
    \A i \in 1..Len(v) : IsAlnumChar(v[i]) \/ v[i] \in {"-", "_"}

\* C4: a username of length 3 to 50 is accepted if and only if each of its
\* characters is alphanumeric, a hyphen or an underscore; when accepted it
\* is lowercased; when rejected, nothing is sent to the database.
UsernameAcceptedIffCharset ==
    \A s \in Slots :
        LET r == req[s]
            accepted == r.error # "RequestValidationError"
        IN  /\ r.kind = "create_user"
            /\ EmailSyntaxOk(r.rawEmail)
            /\ LengthOk(r.raw)
            => /\ accepted <=> OnlyAllowedChars(r.raw)
               /\ accepted => r.username = StrLower(r.raw)
               /\ ~accepted => trail[s] = <<"open">> /\ r.user_id = 0

\* C5: creations issued one after the other, each with an email and a
\* username that no stored row holds, all answer 201, and each id returned
\* is greater than every id returned before, deletions in between or not.
SequentialCreatesIncreasingIds ==
    \A s \in Slots :
        CreateAnswered(req[s]) =>
            /\ ~EmailStoredBefore(req[s]) /\ ~UsernameStoredBefore(req[s])
               => req[s].status = 201
            /\ req[s].status = 201
               => \A i \in returned : req[s].body[1].id > i

\* a creation answers 201 after an earlier id was returned and then deleted
CreatedAfterDelete ==
    \E s \in Slots :
        /\ CreateAnswered(req[s])
        /\ req[s].status = 201
        /\ returned \cap deleted # {}

\* C6: once delete_user has answered 200 for an id, no row has that id
\* again, and every later get_user and delete_user for it answers 404.
DeletedStaysGone ==
    /\ \A u \in Range(users) : u.id \notin deleted
    /\ \A s \in Slots :
        /\ req[s].pc = "exit"
        /\ req[s].kind \in {"get_user", "delete_user"}
        /\ req[s].user_id \in deleted
        /\ req[s].error \notin InfraErrors
        => req[s].status = 404

\* a request for a deleted id is answered
DeletedIdAsked ==
    \E s \in Slots :
        /\ req[s].pc = "exit"
        /\ req[s].kind \in {"get_user", "delete_user"}
        /\ req[s].user_id \in deleted
        /\ req[s].status = 404

\* the stored rows in the order of their creation (ascending id)
ByInsertion ==
    [i \in 1..Len(users) |->
        CHOOSE u \in Range(users) :
            Cardinality({x \in Range(users) : x.id < u.id}) = i - 1]

\* C7: with N users created and none deleted, get_users with skip = k and
\* limit = m, both non-negative, answers 200 with the rows at positions
\* [k, min(k + m, N)) of the insertion order, which is empty when k >= N.
ListIsInsertionOrderSlice ==
    \A s \in Slots :
        /\ req[s].pc = "exit"
        /\ req[s].kind = "get_users"
        /\ req[s].skip >= 0 /\ req[s].limit >= 0
        /\ req[s].error \notin InfraErrors
        /\ deleted = {}
        => /\ req[s].status = 200
           /\ req[s].body =
                SubSeq(ByInsertion, req[s].skip + 1,
                       Min(req[s].skip + req[s].limit, Len(users)))

\* the second of two rows is listed alone
SecondRowListed ==
    \E s \in Slots :
        /\ req[s].pc = "exit"
        /\ req[s].kind = "get_users"
        /\ req[s].status = 200
        /\ req[s].skip = 1
        /\ Len(users) = 2
        /\ Len(req[s].body) = 1
        /\ deleted = {}

\* C8: every stored user has updated_at equal to created_at.
UpdatedEqualsCreated ==
    \A u \in Range(users) : u.updated_at = u.created_at

\* C9: every create request refused because its email or username is
\* already stored answers 400 with the reason, never 500.
DuplicateAnswersConflict ==
    \A s \in Slots :
        /\ req[s].pc = "exit"
        /\ req[s].kind = "create_user"
        /\ req[s].error \in {"HTTPException", "IntegrityError"}
        => /\ req[s].status = 400
           /\ req[s].detail \in {"Email already registered", "Username already taken"}

\* every Session of a finished request is closed, after a rollback when
\* the request ended in an exception
SessionsReleased ==
    /\ \A s \in Slots : req[s].pc = "idle" => sess[s] \in {"none", "closed"}
    /\ \A s \in Slots :
        sess[s] = "closed" =>
            trail[s] \in {<<"close">>, <<"except", "rollback", "close">>}
    /\ (\A s \in Slots : req[s].pc = "idle") /\ others.open + others.conn = 0
        => SessionsOpen = 0

\* C10 (as stated): every Session is released when its request finishes,
\* and the Sessions open at once never exceed the pool size.
OpenSessionsWithinPool ==
    SessionsReleased /\ SessionsOpen <= pool_size + max_overflow

\* C10 (amended): every Session is released when its request finishes, and
\* the Sessions holding a pooled connection at once never exceed the pool size.
ConnectionsWithinPool ==
    SessionsReleased /\ ConnOut <= pool_size + max_overflow

\* the pool is exhausted, a further Session waits for a connection, and a
\* request that ended in an exception has had its Session rolled back and closed
PoolExhausted ==
    /\ ConnOut = pool_size
    /\ SessionsOpen > pool_size
    /\ \E s \in Slots :
        sess[s] = "closed" /\ trail[s] = <<"except", "rollback", "close">>

====
